---- MODULE Spec2Model ----
(***************************************************************************)
(* Review acquisition and reputation scoring of src/analyze_reputation.py  *)
(* (class ReputationAnalyzer, main) and its HTTP front door src/app.py.    *)
(*                                                                         *)
(* One pipeline run is modelled: the acquisition (submit, then the         *)
(* sleep/poll loop), the report generation (qualitative analysis, score,   *)
(* recommendation) and the reaction of the caller (CLI main, the /analyze  *)
(* handler, or a client that calls the public methods itself).             *)
(***************************************************************************)
EXTENDS Integers, Sequences, FiniteSets, TLC

\* ------------------------------------------------------------ constants
\* for attempt in range(18)
MaxAttempts == 18
\* time.sleep(5)
PollInterval == 5
\* timedelta(days=180)
RecentDays == 180
\* reviews[:50]
ReviewCap == 50
\* reviews[:10]
SampleCap == 10

\* ---------------------------------------------------------------- bounds
\* longest reviews_data sequence of a listing record
MaxReviews == 2
\* longest red_flags sequence of a classifier document
MaxFlags == 2
\* longest red_flags sequence of a classifier document in a whole run
MaxPipelineFlags == 1

SeqUpTo(S, n) == UNION {[1..k -> S] : k \in 0..n}

Min(a, b) == IF a <= b THEN a ELSE b

\* xs[:n]
Take(xs, n) == SubSeq(xs, 1, Min(n, Len(xs)))

\* ------------------------------------------------------ provider payloads
\* review_datetime_utc of one review: missing/empty, not in the
\* "%Y-%m-%d %H:%M:%S" format, or well formed and `age` days before now.
Timestamps ==
    { [fmt |-> "missing", age |-> 0], [fmt |-> "malformed", age |-> 0],
      [fmt |-> "ok", age |-> 30], [fmt |-> "ok", age |-> 200] }

\* One element of reviews_data: has_text is review_text being non-empty.
Reviews == [has_text : BOOLEAN, ts : Timestamps]

\* a review with a text, dated within the window
RecentReview == [has_text |-> TRUE, ts |-> [fmt |-> "ok", age |-> 30]]

\* n reviews without text and older than the window, but for the one at
\* position k (if any), which has a text and is recent
Marked(n, k) ==
    [i \in 1..n |-> IF i = k THEN RecentReview
                    ELSE [has_text |-> FALSE, ts |-> [fmt |-> "ok", age |-> 200]]]

\* listings with more reviews than the qualitative step reads: the only
\* text is the last one read, or the first one left out
LongListings ==
    {[rating10 |-> 45, reviews |-> 120, reviews_data |-> Marked(ReviewCap + 10, k)] :
        k \in {ReviewCap, ReviewCap + 1}}

\* the reviews of the listings the pipeline runs are given
PipelineReviews ==
    { [has_text |-> TRUE, ts |-> [fmt |-> "ok", age |-> 30]],
      [has_text |-> FALSE, ts |-> [fmt |-> "missing", age |-> 0]] }

\* rating in tenths of a star
Ratings == {0, 45}

\* the provider-reported review count ('reviews')
Counts == {0, 120}

\* The listing record (clinic_data): the keys the pipeline reads.  A map
\* without those keys reads as rating 0, reviews 0, reviews_data [].
Snapshots ==
    [rating10 : Ratings, reviews : Counts,
     reviews_data : SeqUpTo(PipelineReviews, MaxReviews)]
    \cup LongListings

NoSnapshot == [rating10 |-> 0, reviews |-> 0, reviews_data |-> <<>>]

\* The 'data' envelope of a Success poll, by the shape of each level:
\* data, data[0] and data[0][0].
Envelopes ==
    [outer : {"absent", "null", "empty_list", "map"}, inner : {"-"}, elem : {"-"}]
    \cup [outer : {"list"}, inner : {"empty_list", "map", "null"}, elem : {"-"}]
    \cup [outer : {"list"}, inner : {"list"}, elem : {"map", "str", "list", "null"}]

\* What one GET of results_location brings back.
PollResponses ==
    [kind : {"transport_error"}, status : {"-"}, env : {[outer |-> "absent", inner |-> "-", elem |-> "-"]}, snap : {NoSnapshot}]
    \cup [kind : {"http_error", "not_json", "json_list"}, status : {"-"}, env : {[outer |-> "absent", inner |-> "-", elem |-> "-"]}, snap : {NoSnapshot}]
    \cup [kind : {"json_map"}, status : {"Pending"}, env : {[outer |-> "absent", inner |-> "-", elem |-> "-"]}, snap : {NoSnapshot}]
    \cup [kind : {"json_map"}, status : {"Success"}, env : {e \in Envelopes : e.elem # "map"}, snap : {NoSnapshot}]
    \cup [kind : {"json_map"}, status : {"Success"}, env : {e \in Envelopes : e.elem = "map"}, snap : Snapshots]

NoResponse == [kind |-> "none", status |-> "-", env |-> [outer |-> "absent", inner |-> "-", elem |-> "-"], snap |-> NoSnapshot]

\* What the POST of the search brings back.
SubmitResponses ==
    {"transport_error", "bad_status", "not_json", "json_list", "no_location", "accepted"}

Drivers == {"cli", "http", "direct"}

\* ---------------------------------------------------- classifier payloads
Severities == {"low", "medium", "high"}

Recommandations == {"Go", "No-Go", "Investigate", "absent"}

\* The 'red_flags' entry of a document: the key is absent, its value is null,
\* or it is a list of flags, each given by its 'severity'.
RedFlagValues(lists) ==
    [t : {"absent", "null"}, v : {<<>>}] \cup [t : {"list"}, v : lists]

\* What json.loads can return: a map with the two keys the pipeline reads, a
\* top-level list, or null.
Documents(lists) ==
    [kind : {"dict"}, red_flags : RedFlagValues(lists), recommandation : Recommandations]
    \cup [kind : {"list", "null"}, red_flags : {[t |-> "absent", v |-> <<>>]}, recommandation : {"absent"}]

\* {}
EmptyAnalysis ==
    [kind |-> "dict", red_flags |-> [t |-> "absent", v |-> <<>>], recommandation |-> "absent"]

PipelineFlagLists == SeqUpTo(Severities, MaxPipelineFlags)

\* A completion is a sequence of tokens around at most one JSON text "DOC":
\* the fence markers ```json (FENCE_JSON) and ``` (FENCE), white space (WS)
\* and other text (TEXT).  `valid` tells whether the
\* JSON text is well formed and `doc` what it denotes.
Framings ==
    { <<"DOC">>,
      <<"FENCE_JSON", "WS", "DOC", "WS", "FENCE">>,
      <<"FENCE", "WS", "DOC", "WS", "FENCE">>,
      <<"TEXT", "WS", "DOC">>,
      <<>> }

FramedDocuments ==
    { [kind |-> "dict", red_flags |-> [t |-> "list", v |-> <<>>], recommandation |-> "Go"],
      [kind |-> "list", red_flags |-> [t |-> "absent", v |-> <<>>], recommandation |-> "absent"] }

\* What the chat-completion call brings back: an error of the service, or a
\* completion.
AiResponses ==
    [kind : {"error"}, content : {<<>>}, valid : {FALSE}, doc : {EmptyAnalysis}]
    \cup [kind : {"completion"}, content : {<<"DOC">>}, valid : {TRUE}, doc : Documents(PipelineFlagLists)]
    \cup [kind : {"completion"}, content : {<<"DOC">>}, valid : {FALSE}, doc : {EmptyAnalysis}]
    \cup [kind : {"completion"}, content : Framings \ {<<"DOC">>}, valid : {TRUE}, doc : FramedDocuments]

NoAiResponse == [kind |-> "none", content |-> <<>>, valid |-> FALSE, doc |-> EmptyAnalysis]

VARIABLES
    OUTSCRAPER_API_KEY, \* the provider credential is set
    OPENAI_API_KEY,     \* the classification credential is set
    driver,             \* who runs the pipeline
    pc,                 \* position of the run
    attempt,            \* the poll loop's index
    submits,            \* POSTs issued
    polls,              \* GETs issued
    waited,             \* time slept
    last_poll,          \* the last poll response received
    diag,               \* the last error message printed by the acquisition
    exc,                \* the exception in flight to the caller
    reviews,            \* the caller's local: what scrape_google_reviews returned
    reviews_data,       \* self.reviews_data
    analysis_result,    \* self.analysis_result
    report,             \* the caller's local: what generate_report_data returned
    ai_resp,            \* the classifier's response, if it was called
    openai_calls,       \* chat-completion calls issued
    analyze_calls,      \* calls of analyze_with_ai
    score_calls,        \* calls of calculate_reputation_score
    score_detail,       \* the sub-scores printed by calculate_reputation_score
    saved,              \* save_report_json wrote the report
    outcome,            \* how the run ended
    fn_args,            \* the arguments of a method called on its own
    fn_result,          \* what that call returned
    submit_resp,        \* the answer the POST received
    request,            \* the inbound request: clinic name and location
    suspended           \* the context of a concurrent request that is not running

vars == <<OUTSCRAPER_API_KEY, OPENAI_API_KEY, driver, pc, attempt, submits,
          polls, waited, last_poll, diag, exc, reviews, reviews_data,
          analysis_result, report, ai_resp, openai_calls, analyze_calls,
          score_calls, score_detail, saved, outcome, fn_args, fn_result,
          submit_resp, request, suspended>>

fnVars == <<fn_args, fn_result>>

\* what no step of a pipeline run changes
frameVars == <<fnVars, OUTSCRAPER_API_KEY, OPENAI_API_KEY, driver, request, suspended>>

\* what the acquisition leaves alone
reportVars == <<analysis_result, report, ai_resp, openai_calls, analyze_calls,
                score_calls, score_detail, saved>>

\* what the report generation leaves alone
scrapeVars == <<attempt, submits, submit_resp, polls, waited, last_poll, diag,
                reviews, reviews_data>>

\* both fields of the request are given and not empty
FullRequest == [clinic_name |-> "given", clinic_location |-> "given"]

\* Two /analyze requests are being served: the variables hold the request
\* whose thread is running, suspended holds the other one.
Concurrent == suspended # <<>>

\* The responses given to concurrent requests: a few of each kind.
SubmitInputs ==
    IF Concurrent THEN {"accepted", "transport_error"} ELSE SubmitResponses

ConcurrentSnapshots ==
    {[rating10 |-> 45, reviews |-> 120, reviews_data |-> <<RecentReview>>],
     [rating10 |-> 0, reviews |-> 0, reviews_data |-> <<RecentReview>>]}

PollInputs ==
    IF Concurrent
    THEN {[NoResponse EXCEPT !.kind = "transport_error"],
          [NoResponse EXCEPT !.kind = "json_map", !.status = "Pending"]}
         \cup {[kind |-> "json_map", status |-> "Success",
                env |-> [outer |-> "list", inner |-> "list", elem |-> "map"],
                snap |-> c] : c \in ConcurrentSnapshots}
    ELSE PollResponses

AiInputs ==
    IF Concurrent
    THEN {[kind |-> "completion", content |-> <<"DOC">>, valid |-> TRUE,
           doc |-> [kind |-> "dict", red_flags |-> [t |-> "list", v |-> f],
                    recommandation |-> "Go"]] : f \in {<<>>, <<"high">>}}
    ELSE AiResponses

\* a freshly constructed analyzer, no call in progress
Constructed ==
    /\ attempt = 0
    /\ submits = 0
    /\ submit_resp = "none"
    /\ polls = 0
    /\ waited = 0
    /\ last_poll = NoResponse
    /\ diag = "none"
    /\ exc = "none"
    /\ reviews = <<>>
    /\ reviews_data = <<>>
    /\ analysis_result = <<>>
    /\ report = <<>>
    /\ ai_resp = NoAiResponse
    /\ openai_calls = 0
    /\ analyze_calls = 0
    /\ score_calls = 0
    /\ score_detail = <<>>
    /\ saved = FALSE
    /\ outcome = "running"

\* ReputationAnalyzer.__init__, with the module-level credentials, at the
\* start of a pipeline run
Init ==
    /\ OUTSCRAPER_API_KEY \in BOOLEAN
    /\ OPENAI_API_KEY \in BOOLEAN
    /\ driver \in Drivers
    /\ pc = "scrape"
    /\ Constructed
    /\ fn_args = <<>>
    /\ fn_result = <<>>
    /\ request = FullRequest
    /\ suspended = <<>>

\* --------------------------------------------------- scrape_google_reviews
\* the credential check left out
KeyMissing_Never == FALSE

\* if not OUTSCRAPER_API_KEY
KeyMissing == ~OUTSCRAPER_API_KEY

\* response.json() on a body that is not JSON raises an error that is a
\* RequestException in recent releases of the HTTP library and a plain
\* ValueError in older ones: either handler prints and returns [].
JsonErrorMessages == {"Erreur reseau scraping", "Erreur scraping: JSONDecodeError"}

\* The function returns `ret` (after printing `msg`, if any) to its caller.
ScrapeReturns(ret, msg) ==
    /\ reviews' = ret
    /\ diag' = msg
    /\ exc' = "none"
    /\ pc' = "scraped"

\* From the call to the answer of the POST.
Submit ==
    /\ pc = "scrape"
    /\ IF KeyMissing
       THEN \* raised before the try block: it reaches the caller
            /\ exc' = "Exception: OUTSCRAPER_API_KEY non definie"
            /\ pc' = "scraped"
            /\ UNCHANGED <<submits, submit_resp, reviews, diag>>
       ELSE \E r \in SubmitInputs :
            /\ submits' = submits + 1
            /\ submit_resp' = r
            /\ CASE r = "transport_error" -> ScrapeReturns(<<>>, "Erreur reseau scraping")
                 [] r = "bad_status" -> ScrapeReturns(<<>>, "Erreur scraping: Status")
                 [] r = "not_json" -> \E msg \in JsonErrorMessages : ScrapeReturns(<<>>, msg)
                 [] r = "json_list" -> ScrapeReturns(<<>>, "Erreur scraping: AttributeError")
                 [] r = "no_location" -> ScrapeReturns(<<>>, "Erreur scraping: Pas de results_location")
                 [] OTHER -> /\ pc' = "sleep"
                             /\ UNCHANGED <<reviews, diag, exc>>
    /\ UNCHANGED <<frameVars, attempt, polls,
                   waited, last_poll, reviews_data, reportVars, outcome>>

\* time.sleep(5) at the top of a loop iteration
Sleep ==
    /\ pc = "sleep"
    /\ waited' = waited + PollInterval
    /\ pc' = "poll"
    /\ UNCHANGED <<frameVars, attempt, submits, submit_resp,
                   polls, last_poll, diag, exc, reviews, reviews_data,
                   reportVars, outcome>>

\* range(19)
LoopExhausted_OffByOne(a) == a > MaxAttempts

\* range(18) is used up after iteration a - 1
LoopExhausted(a) == a >= MaxAttempts

\* truthiness and type of a payload level
Truthy(tag) == tag \in {"map", "list", "str"}

IsList(tag) == tag \in {"list", "empty_list"}

\* status_data.get('data', [])
DataOf(env) == IF env.outer = "absent" THEN "empty_list" ELSE env.outer

\* the check of data[0] left out
UnwrapDiag_NoInnerCheck(env) ==
    IF Truthy(DataOf(env)) /\ IsList(DataOf(env))
    THEN IF env.elem \in {"map", "-"}
         THEN "ok"
         ELSE "Element n'est pas un dict"
    ELSE "data vide ou invalide"

\* The nested checks of the Success branch: "ok", or the message printed at
\* the level that is not as expected.
UnwrapDiag(env) ==
    IF Truthy(DataOf(env)) /\ IsList(DataOf(env))
    THEN IF IsList(env.inner) /\ env.inner # "empty_list"
         THEN IF env.elem = "map"
              THEN "ok"
              ELSE "Element n'est pas un dict"
         ELSE "data[0] n'est pas une liste"
    ELSE "data vide ou invalide"

\* the timeout raised where no handler of the function catches it
NextAttempt_Reraises ==
    IF LoopExhausted(attempt + 1)
    THEN /\ exc' = "Exception: Timeout"
         /\ pc' = "scraped"
         /\ UNCHANGED <<attempt, reviews, diag>>
    ELSE /\ attempt' = attempt + 1
         /\ pc' = "sleep"
         /\ UNCHANGED <<reviews, diag, exc>>

\* the loop left at the first answer that is not ready
NextAttempt_NoRetry ==
    /\ ScrapeReturns(<<>>, "Erreur scraping: Timeout")
    /\ UNCHANGED attempt

\* `continue`, or falling out of the iteration: the next iteration, or the
\* timeout raised after the loop and caught by the function's own handler.
NextAttempt ==
    IF LoopExhausted(attempt + 1)
    THEN /\ ScrapeReturns(<<>>, "Erreur scraping: Timeout")
         /\ UNCHANGED attempt
    ELSE /\ attempt' = attempt + 1
         /\ pc' = "sleep"
         /\ UNCHANGED <<reviews, diag, exc>>

\* the failed GET taken as "not ready"
PollTransportError_Retries == NextAttempt

\* requests.get raised a RequestException: the handler of lines 133-135
\* prints it and returns [].
PollTransportError ==
    /\ ScrapeReturns(<<>>, "Erreur reseau scraping")
    /\ UNCHANGED attempt

\* One GET of results_location and what the loop body does with the answer.
Poll ==
    /\ pc = "poll"
    /\ \E r \in PollInputs :
        /\ polls' = polls + 1
        /\ last_poll' = r
        /\ CASE r.kind = "transport_error" ->
                    /\ PollTransportError
                    /\ UNCHANGED reviews_data
             [] r.kind = "http_error" ->
                    /\ NextAttempt
                    /\ UNCHANGED reviews_data
             [] r.kind = "not_json" ->
                    /\ \E msg \in JsonErrorMessages : ScrapeReturns(<<>>, msg)
                    /\ UNCHANGED <<attempt, reviews_data>>
             [] r.kind = "json_list" ->
                    /\ ScrapeReturns(<<>>, "Erreur scraping: AttributeError")
                    /\ UNCHANGED <<attempt, reviews_data>>
             [] r.kind = "json_map" /\ r.status # "Success" ->
                    /\ NextAttempt
                    /\ UNCHANGED reviews_data
             [] OTHER ->
                    IF UnwrapDiag(r.env) = "ok"
                    THEN /\ reviews_data' = <<r.snap>>
                         /\ ScrapeReturns(<<r.snap>>, diag)
                         /\ UNCHANGED attempt
                    ELSE /\ ScrapeReturns(<<>>, UnwrapDiag(r.env))
                         /\ UNCHANGED <<attempt, reviews_data>>
    /\ UNCHANGED <<frameVars, submits, submit_resp, waited,
                   reportVars, outcome>>

\* ------------------------------------------------------------ the callers
\* What the caller does with the outcome of scrape_google_reviews:
\* main exits on an empty result (an uncaught exception ends the process
\* with a traceback), the /analyze handler answers 404 (500 on exception).
\* the caller's check of the result left out
ScrapeFailed_Never == FALSE

\* if not reviews
ScrapeFailed == reviews = <<>>

AfterScrape ==
    /\ pc = "scraped"
    /\ IF exc # "none"
       THEN /\ outcome' = CASE driver = "cli" -> "cli_traceback_exit_1"
                            [] driver = "http" -> "http_500"
                            [] OTHER -> "raised"
            /\ pc' = "done"
       ELSE IF ScrapeFailed /\ driver # "direct"
       THEN /\ outcome' = IF driver = "cli" THEN "cli_exit_1" ELSE "http_404"
            /\ pc' = "done"
       ELSE /\ pc' = "generate"
            /\ UNCHANGED outcome
    /\ UNCHANGED <<frameVars, attempt, submits, submit_resp,
                   polls, waited, last_poll, diag, exc, reviews, reviews_data,
                   reportVars>>

\* --------------------------------------------------------- analyze_with_ai
HasText(r) == r.has_text

\* the reviews of reviews[:50] whose review_text is not empty
SampledTexts(rs) == SelectSeq(Take(rs, ReviewCap), HasText)

\* The three early returns are passed: the service is called.
ClassifierCalled_AnyText(rs) ==
    /\ rs # <<>>
    /\ OPENAI_API_KEY
    /\ SelectSeq(rs, HasText) # <<>>

ClassifierCalled(rs) ==
    /\ rs # <<>>
    /\ OPENAI_API_KEY
    /\ SampledTexts(rs) # <<>>

RECURSIVE LStrip(_)
LStrip(c) == IF c # <<>> /\ Head(c) = "WS" THEN LStrip(Tail(c)) ELSE c

RECURSIVE RStrip(_)
RStrip(c) ==
    IF c # <<>> /\ c[Len(c)] = "WS" THEN RStrip(SubSeq(c, 1, Len(c) - 1)) ELSE c

\* str.strip()
Strip(c) == RStrip(LStrip(c))

StartsWith(c, tok) == c # <<>> /\ Head(c) = tok

EndsWith(c, tok) == c # <<>> /\ c[Len(c)] = tok

\* if ai_response.startswith("```json"): ai_response = ai_response[7:]
DropJsonFence(c) == IF StartsWith(c, "FENCE_JSON") THEN Tail(c) ELSE c

\* if ai_response.startswith("```"): ai_response = ai_response[3:]
DropLeadingFence(c) == IF StartsWith(c, "FENCE") THEN Tail(c) ELSE c

\* if ai_response.endswith("```"): ai_response = ai_response[:-3]
DropTrailingFence(c) == IF EndsWith(c, "FENCE") THEN SubSeq(c, 1, Len(c) - 1) ELSE c

\* "Nettoyer le JSON": the text handed to json.loads
CleanResponse(c) == Strip(DropTrailingFence(DropLeadingFence(DropJsonFence(Strip(c)))))

\* json.loads succeeds on exactly one well-formed JSON text
JsonParses(resp) == CleanResponse(resp.content) = <<"DOC">> /\ resp.valid

\* the parse failure not handled: whatever the text holds is returned
ParseCompletion_Unchecked(resp) ==
    IF resp.kind = "completion" THEN resp.doc ELSE EmptyAnalysis

\* The try block: any exception of the call or of the parsing gives {}.
ParseCompletion(resp) ==
    IF resp.kind = "completion" /\ JsonParses(resp) THEN resp.doc ELSE EmptyAnalysis

analyze_with_ai(rs, resp) ==
    IF ClassifierCalled(rs) THEN ParseCompletion(resp) ELSE EmptyAnalysis

\* --------------------------------------------- calculate_reputation_score
VolumeScore_Exclusive(n) ==
    IF n > 100 THEN 20 ELSE IF n > 50 THEN 15 ELSE IF n > 20 THEN 10 ELSE 5

\* the step function of the review count
VolumeScore(n) ==
    IF n >= 100 THEN 20 ELSE IF n >= 50 THEN 15 ELSE IF n >= 20 THEN 10 ELSE 5

\* clinic_data.get('reviews', 0) or len(reviews)
EffectiveCount(c) == IF c.reviews # 0 THEN c.reviews ELSE Len(c.reviews_data)

IsRecent_Unparsed(r) == r.ts.fmt # "missing" /\ (r.ts.fmt = "ok" => r.ts.age < RecentDays)

\* The timestamp is present, strptime accepts it and it is after now - 180 days.
IsRecent(r) == r.ts.fmt = "ok" /\ r.ts.age < RecentDays

RecentCount(rs) == Len(SelectSeq(rs, IsRecent))

IsHigh(sev) == sev = "high"

IsMedium(sev) == sev = "medium"

PenaltyScore_FirstFlag(flags) ==
    LET high_severity == IF flags # <<>> /\ IsHigh(flags[1]) THEN 1 ELSE 0
        medium_severity == Len(SelectSeq(flags, IsMedium))
    IN  IF high_severity > 0 THEN 0
        ELSE IF medium_severity > 2 THEN 3
        ELSE IF medium_severity > 0 THEN 6
        ELSE 10

PenaltyScore(flags) ==
    LET high_severity == Len(SelectSeq(flags, IsHigh))
        medium_severity == Len(SelectSeq(flags, IsMedium))
    IN  IF high_severity > 0 THEN 0
        ELSE IF medium_severity > 2 THEN 3
        ELSE IF medium_severity > 0 THEN 6
        ELSE 10

\* ai_analysis.get('red_flags', []) followed by the iteration over it:
\* "AttributeError" when ai_analysis has no get (it is not a map),
\* "TypeError" when the value is null, else "none".
FlagsError(ai) ==
    IF ai.kind # "dict" THEN "AttributeError"
    ELSE IF ai.red_flags.t = "null" THEN "TypeError"
    ELSE "none"

FlagsOf(ai) == IF ai.red_flags.t = "list" THEN ai.red_flags.v ELSE <<>>

\* Python floats are IEEE binary64.  A non-negative double below 2^8 and
\* not below 2^-11 (or zero) is held exactly as a fixed-point number: three
\* limbs of 24 bits, least significant limb first, 64 of the 72 bits after
\* the binary point.  Every float operation of the scorer is the exact
\* operation on that number followed by rounding to 53 significant bits,
\* to nearest, ties to even.
Base == 2^24

\* the int k as a float
FromInt(k) == <<0, 0, k * 2^16>>

\* int(x) of a non-negative float: its integer part
Trunc(x) == x[3] \div 2^16

BigAdd(x, y) ==
    LET s1 == x[1] + y[1]
        s2 == x[2] + y[2] + (s1 \div Base)
        s3 == x[3] + y[3] + (s2 \div Base)
    IN  <<s1 % Base, s2 % Base, s3 % Base>>

BigMul(x, m) ==
    LET p1 == x[1] * m
        p2 == x[2] * m + (p1 \div Base)
        p3 == x[3] * m + (p2 \div Base)
    IN  <<p1 % Base, p2 % Base, p3 % Base>>

\* quotient and remainder of x by the small int d
BigDivMod(x, d) ==
    LET n2 == (x[3] % d) * Base + x[2]
        n1 == (n2 % d) * Base + x[1]
    IN  [quot |-> <<n1 \div d, n2 \div d, x[3] \div d>>, rem |-> n1 % d]

\* the number of bits of the limb v
RECURSIVE Width(_)
Width(v) ==
    IF v >= 2^8 THEN 8 + Width(v \div 2^8)
    ELSE IF v >= 2^4 THEN 4 + Width(v \div 2^4)
    ELSE IF v >= 4 THEN 2 + Width(v \div 4)
    ELSE IF v >= 2 THEN 2 ELSE v

BitLen(x) ==
    IF x[3] # 0 THEN 48 + Width(x[3])
    ELSE IF x[2] # 0 THEN 24 + Width(x[2])
    ELSE Width(x[1])

Bit(x, b) == (x[b \div 24 + 1] \div 2^(b % 24)) % 2

\* one of the bits 0..b-1 is set
AnyBelow(x, b) ==
    \/ \E j \in 1..(b \div 24) : x[j] # 0
    \/ x[b \div 24 + 1] % 2^(b % 24) # 0

ClearBelow(x, b) ==
    LET limb(i) == IF i < b \div 24 + 1 THEN 0
                   ELSE IF i = b \div 24 + 1 THEN x[i] - (x[i] % 2^(b % 24))
                   ELSE x[i]
    IN  <<limb(1), limb(2), limb(3)>>

Ulp(b) ==
    LET limb(i) == IF i = b \div 24 + 1 THEN 2^(b % 24) ELSE 0
    IN  <<limb(1), limb(2), limb(3)>>

\* Round to 53 significant bits; sticky tells that the exact value has
\* non-zero bits below those of x.
Round(x, sticky) ==
    LET drop == BitLen(x) - 53
    IN  IF drop <= 0 \/ (~sticky /\ ~AnyBelow(x, drop)) THEN x
        ELSE LET up == /\ Bit(x, drop - 1) = 1
                       /\ sticky \/ AnyBelow(x, drop - 1) \/ Bit(x, drop) = 1
                 t == ClearBelow(x, drop)
             IN  IF up THEN BigAdd(t, Ulp(drop)) ELSE t

\* x / d, x * m and x + y in floats, d and m small ints
FDiv(x, d) == LET q == BigDivMod(x, d) IN Round(q.quot, q.rem # 0)

FMul(x, m) == Round(BigMul(x, m), FALSE)

FAdd(x, y) == Round(BigAdd(x, y), FALSE)

\* The float the JSON parser yields for a rating written with one decimal:
\* the double nearest to rating10 / 10.
RatingValue(rating10) == FDiv(FromInt(rating10), 10)

RatingScore_Unscaled(rating10) == FMul(RatingValue(rating10), 40)

\* score_rating = (avg_rating / 5.0) * 40
RatingScore(rating10) == FMul(FDiv(RatingValue(rating10), 5), 40)

\* recent_ratio * 15 with recent_ratio = recent_reviews / len(reviews), or
\* the int 10 when there is no review
RecencyScore(rs) ==
    IF Len(rs) > 0 THEN FMul(FDiv(FromInt(RecentCount(rs)), Len(rs)), 15)
    ELSE FromInt(10)

\* The five sub-scores.
ScoreDetail(c, flags) ==
    [rating |-> RatingScore(c.rating10),
     volume |-> VolumeScore(EffectiveCount(c)),
     recency |-> RecencyScore(c.reviews_data),
     trend |-> 10,
     red_flags |-> PenaltyScore(flags)]

\* int(score_rating + score_volume + score_recency + score_trend + score_red_flags)
TotalScore(d) ==
    Trunc(FAdd(FAdd(FAdd(FAdd(d.rating, FromInt(d.volume)), d.recency),
                    FromInt(d.trend)), FromInt(d.red_flags)))

\* The result of a call: the exception raised, or the score and what was
\* printed.
calculate_reputation_score(rd, ai) ==
    IF rd = <<>>
    THEN [exc |-> "none", total |-> 0, detail |-> <<>>]
    ELSE IF FlagsError(ai) # "none"
    THEN [exc |-> FlagsError(ai), total |-> 0, detail |-> <<>>]
    ELSE LET d == ScoreDetail(rd[1], FlagsOf(ai))
         IN  [exc |-> "none", total |-> TotalScore(d), detail |-> <<d>>]

\* -------------------------------------------------------- _get_recommendation
\* the default taken to be 'Go'
AiRec_DefaultGo(ai) == IF ai.recommandation = "absent" THEN "Go" ELSE ai.recommandation

\* ai_analysis.get('recommandation', 'Investigate')
AiRec(ai) == IF ai.recommandation = "absent" THEN "Investigate" ELSE ai.recommandation

\* the score tested before the red flags
Resolve_ScoreFirst(score, flags, ai_rec) ==
    IF score >= 75 /\ ai_rec = "Go" THEN "GO"
    ELSE IF SelectSeq(flags, IsHigh) # <<>> THEN "NO-GO"
    ELSE IF score < 60 THEN "NO-GO"
    ELSE "INVESTIGATE"

\* a provider recommendation of 'No-Go' taken as a verdict
Resolve_ProviderVeto(score, flags, ai_rec) ==
    IF SelectSeq(flags, IsHigh) # <<>> THEN "NO-GO"
    ELSE IF score >= 75 /\ ai_rec = "Go" THEN "GO"
    ELSE IF score < 60 \/ ai_rec = "No-Go" THEN "NO-GO"
    ELSE "INVESTIGATE"

\* the branches, once red_flags was read
Resolve(score, flags, ai_rec) ==
    IF SelectSeq(flags, IsHigh) # <<>> THEN "NO-GO"
    ELSE IF score >= 75 /\ ai_rec = "Go" THEN "GO"
    ELSE IF score < 60 THEN "NO-GO"
    ELSE "INVESTIGATE"

_get_recommendation(score, ai) ==
    IF FlagsError(ai) # "none"
    THEN [exc |-> FlagsError(ai), val |-> "-"]
    ELSE [exc |-> "none", val |-> Resolve(score, FlagsOf(ai), AiRec(ai))]

\* ------------------------------------------------------ generate_report_data
\* the report map, by the entries that depend on the run
ReportOf_WholeSample(c, ai, score, rec) ==
    [rating10 |-> c.rating10,
     total_reviews |-> c.reviews,
     reviews_analyzed |-> Len(c.reviews_data),
     reputation_score |-> score,
     ai_analysis |-> ai,
     recommendation |-> rec,
     raw_reviews_sample |-> c.reviews_data]

ReportOf(c, ai, score, rec) ==
    [rating10 |-> c.rating10,
     total_reviews |-> c.reviews,
     reviews_analyzed |-> Len(c.reviews_data),
     reputation_score |-> score,
     ai_analysis |-> ai,
     recommendation |-> rec,
     raw_reviews_sample |-> Take(c.reviews_data, SampleCap)]

\* The body after the guard, given the classifier's response (NoAiResponse
\* when it is not called).
GenerateWith(resp) ==
    LET c == reviews_data[1]
        rs == c.reviews_data
        ai == IF rs # <<>> THEN analyze_with_ai(rs, resp) ELSE EmptyAnalysis
        sc == calculate_reputation_score(reviews_data, ai)
        rec == _get_recommendation(sc.total, ai)
    IN  /\ ai_resp' = resp
        /\ openai_calls' = IF ClassifierCalled(rs) THEN openai_calls + 1 ELSE openai_calls
        /\ analyze_calls' = IF rs # <<>> THEN analyze_calls + 1 ELSE analyze_calls
        /\ score_calls' = score_calls + 1
        /\ score_detail' = sc.detail
        /\ IF sc.exc # "none"
           THEN /\ exc' = sc.exc
                /\ UNCHANGED <<analysis_result, report>>
           ELSE IF rec.exc # "none"
           THEN /\ exc' = rec.exc
                /\ UNCHANGED <<analysis_result, report>>
           ELSE /\ analysis_result' = <<ReportOf(c, ai, sc.total, rec.val)>>
                /\ report' = analysis_result'
                /\ UNCHANGED exc

\* if not self.reviews_data
NoData == reviews_data = <<>>

Generate ==
    /\ pc = "generate"
    /\ IF NoData
       THEN /\ report' = <<>>
            /\ UNCHANGED <<analysis_result, ai_resp, openai_calls, analyze_calls,
                           score_calls, score_detail, exc>>
       ELSE IF ClassifierCalled(reviews_data[1].reviews_data)
       THEN \E resp \in AiInputs : GenerateWith(resp)
       ELSE GenerateWith(NoAiResponse)
    /\ pc' = "generated"
    /\ UNCHANGED <<frameVars, scrapeVars, saved,
                   outcome>>

\* What the caller does with the outcome of generate_report_data: main saves
\* the report and prints the summary, the handler answers 200.
AfterGenerate ==
    /\ pc = "generated"
    /\ pc' = "done"
    /\ IF exc # "none"
       THEN /\ outcome' = CASE driver = "cli" -> "cli_traceback_exit_1"
                            [] driver = "http" -> "http_500"
                            [] OTHER -> "raised"
            /\ UNCHANGED saved
       ELSE IF report = <<>>
       THEN /\ outcome' = CASE driver = "cli" -> "cli_exit_1"
                            [] driver = "http" -> "http_500"
                            [] OTHER -> "no_report"
            /\ UNCHANGED saved
       ELSE /\ outcome' = CASE driver = "cli" -> "cli_exit_0"
                            [] driver = "http" -> "http_200"
                            [] OTHER -> "returned"
            /\ saved' = (driver = "cli")
    /\ UNCHANGED <<frameVars, scrapeVars, exc,
                   analysis_result, report, ai_resp, openai_calls, analyze_calls,
                   score_calls, score_detail>>

Next == Submit \/ Sleep \/ Poll \/ AfterScrape \/ Generate \/ AfterGenerate

Spec == Init /\ [][Next]_vars

\* ------------------------------------------- _get_recommendation on its own
\* the analyses of the resolver's domain: a map whose red_flags is a list or
\* is absent
ResolverAnalyses ==
    {d \in Documents(SeqUpTo(Severities, MaxFlags)) :
        d.kind = "dict" /\ d.red_flags.t # "null"}

InitRec ==
    /\ OUTSCRAPER_API_KEY = FALSE
    /\ OPENAI_API_KEY = FALSE
    /\ driver = "direct"
    /\ pc = "call"
    /\ Constructed
    /\ request = FullRequest
    /\ suspended = <<>>
    /\ fn_args \in [score : 0..100, ai_analysis : ResolverAnalyses]
    /\ fn_result = <<>>

CallRec ==
    /\ pc = "call"
    /\ fn_result' = <<_get_recommendation(fn_args.score, fn_args.ai_analysis)>>
    /\ pc' = "returned"
    /\ UNCHANGED <<fn_args, OUTSCRAPER_API_KEY, OPENAI_API_KEY, driver, request,
                   suspended, scrapeVars,
                   reportVars, exc, outcome>>

NextRec == CallRec

SpecRec == InitRec /\ [][NextRec]_vars

\* ------------------------------------- calculate_reputation_score alone
\* longest red_flags sequence handed to the scorer
MaxScoreFlags == 3

\* ratings in tenths of a star, within [0, 5]
ScoreRatings == {0, 1, 17, 25, 34, 45, 49, 50}

\* provider-reported review counts around the steps of the volume sub-score
ScoreCounts == {0, 19, 20, 49, 50, 99, 100, 120}

\* lengths of the long review sequences
LongLengths == {10, 19, 20, 25, 49, 50, 99, 100}

\* n reviews, the first k of them recent and the others with timestamp ts
Mixed(n, k, ts) ==
    [i \in 1..n |-> IF i <= k THEN RecentReview ELSE [has_text |-> TRUE, ts |-> ts]]

LongReviewLists ==
    {Mixed(n, k, ts) : n \in LongLengths, k \in {0, 3, 4},
                       ts \in {[fmt |-> "malformed", age |-> 0], [fmt |-> "ok", age |-> 200]}}
    \cup {Mixed(n, n, RecentReview.ts) : n \in LongLengths}

ShortReviewLists == SeqUpTo([has_text : {TRUE}, ts : Timestamps], MaxReviews)

ScoreAnalysis(flags) ==
    [kind |-> "dict", red_flags |-> [t |-> "list", v |-> flags], recommandation |-> "Go"]

\* every review sequence with a few analyses, and a few review sequences
\* with every analysis
ScoreInputs ==
    LET few_flags == {<<>>, <<"high">>, <<"medium", "low">>}
        few_reviews == {<<>>, Mixed(25, 4, [fmt |-> "ok", age |-> 200]),
                        Mixed(10, 10, RecentReview.ts)}
        analyses(lists) ==
            {ScoreAnalysis(f) : f \in lists}
            \cup {EmptyAnalysis, [EmptyAnalysis EXCEPT !.red_flags.t = "null"],
                  [EmptyAnalysis EXCEPT !.kind = "list"]}
        listing(lists) ==
            {<<c>> : c \in [rating10 : ScoreRatings, reviews : ScoreCounts,
                            reviews_data : lists]}
    IN  [reviews_data : {<<>>}, ai_analysis : analyses(few_flags)]
        \cup [reviews_data : listing(ShortReviewLists \cup LongReviewLists),
              ai_analysis : analyses(few_flags)]
        \cup [reviews_data : listing(few_reviews),
              ai_analysis : analyses(SeqUpTo(Severities, MaxScoreFlags))]

InitScore ==
    /\ OUTSCRAPER_API_KEY = FALSE
    /\ OPENAI_API_KEY = FALSE
    /\ driver = "direct"
    /\ pc = "call"
    /\ Constructed
    /\ request = FullRequest
    /\ suspended = <<>>
    /\ fn_args \in ScoreInputs
    /\ fn_result = <<>>

CallScore ==
    /\ pc = "call"
    /\ fn_result' = <<calculate_reputation_score(fn_args.reviews_data, fn_args.ai_analysis)>>
    /\ pc' = "returned"
    /\ UNCHANGED <<fn_args, OUTSCRAPER_API_KEY, OPENAI_API_KEY, driver, request,
                   suspended, scrapeVars,
                   reportVars, exc, outcome>>

NextScore == CallScore

SpecScore == InitScore /\ [][NextScore]_vars

\* ------------------------------------ generate_report_data on long listings
\* numbers of retrieved reviews around the sample of 10 and the cap of 50
ListingLengths == {0, 1, 9, 10, 11, 50, 51, 60}

LongSnapshots ==
    {[rating10 |-> 45, reviews |-> c, reviews_data |-> Marked(n, k)] :
        c \in Counts, n \in ListingLengths, k \in {0, 1, 10, 11, 50, 51}}

\* scrape_google_reviews has just returned the listing of a first Success poll
InitReport ==
    /\ OUTSCRAPER_API_KEY = TRUE
    /\ OPENAI_API_KEY \in BOOLEAN
    /\ driver \in Drivers
    /\ pc = "scraped"
    /\ request = FullRequest
    /\ suspended = <<>>
    /\ fn_args = <<>>
    /\ fn_result = <<>>
    /\ attempt = 0
    /\ submits = 1
    /\ submit_resp = "accepted"
    /\ polls = 1
    /\ waited = PollInterval
    /\ \E c \in LongSnapshots :
        /\ last_poll = [kind |-> "json_map", status |-> "Success",
                        env |-> [outer |-> "list", inner |-> "list", elem |-> "map"],
                        snap |-> c]
        /\ reviews_data = <<c>>
        /\ reviews = <<c>>
    /\ diag = "none"
    /\ exc = "none"
    /\ analysis_result = <<>>
    /\ report = <<>>
    /\ ai_resp = NoAiResponse
    /\ openai_calls = 0
    /\ analyze_calls = 0
    /\ score_calls = 0
    /\ score_detail = <<>>
    /\ saved = FALSE
    /\ outcome = "running"

NextReport == AfterScrape \/ Generate \/ AfterGenerate

SpecReport == InitReport /\ [][NextReport]_vars

\* ------------------------------------------- two concurrent /analyze requests
\* one analyzer shared by the requests
AnalyzerPerRequest_Singleton == FALSE

\* analyzer = ReputationAnalyzer(clinic_name, clinic_location) in the
\* handler: the instance, and so reviews_data and analysis_result, belong
\* to the request.
AnalyzerPerRequest == TRUE

\* What belongs to the running request: the handler's locals and position,
\* what its calls have exchanged with the services, and its analyzer.
Context ==
    [pc |-> pc, attempt |-> attempt, submits |-> submits, submit_resp |-> submit_resp,
     polls |-> polls, waited |-> waited, last_poll |-> last_poll, diag |-> diag,
     exc |-> exc, reviews |-> reviews, report |-> report, ai_resp |-> ai_resp,
     openai_calls |-> openai_calls, analyze_calls |-> analyze_calls,
     score_calls |-> score_calls, score_detail |-> score_detail, saved |-> saved,
     outcome |-> outcome, request |-> request,
     reviews_data |-> reviews_data, analysis_result |-> analysis_result]

\* a request the handler has validated and built an analyzer for
FreshContext ==
    [pc |-> "scrape", attempt |-> 0, submits |-> 0, submit_resp |-> "none",
     polls |-> 0, waited |-> 0, last_poll |-> NoResponse, diag |-> "none",
     exc |-> "none", reviews |-> <<>>, report |-> <<>>, ai_resp |-> NoAiResponse,
     openai_calls |-> 0, analyze_calls |-> 0,
     score_calls |-> 0, score_detail |-> <<>>, saved |-> FALSE,
     outcome |-> "running", request |-> FullRequest,
     reviews_data |-> <<>>, analysis_result |-> <<>>]

InitConc ==
    /\ OUTSCRAPER_API_KEY = TRUE
    /\ OPENAI_API_KEY = TRUE
    /\ driver = "http"
    /\ pc = "scrape"
    /\ Constructed
    /\ fn_args = <<>>
    /\ fn_result = <<>>
    /\ request = FullRequest
    /\ suspended = FreshContext

\* The scheduler takes the running thread off and resumes the other one.
Switch ==
    /\ Concurrent
    /\ suspended' = Context
    /\ pc' = suspended.pc
    /\ attempt' = suspended.attempt
    /\ submits' = suspended.submits
    /\ submit_resp' = suspended.submit_resp
    /\ polls' = suspended.polls
    /\ waited' = suspended.waited
    /\ last_poll' = suspended.last_poll
    /\ diag' = suspended.diag
    /\ exc' = suspended.exc
    /\ reviews' = suspended.reviews
    /\ report' = suspended.report
    /\ ai_resp' = suspended.ai_resp
    /\ openai_calls' = suspended.openai_calls
    /\ analyze_calls' = suspended.analyze_calls
    /\ score_calls' = suspended.score_calls
    /\ score_detail' = suspended.score_detail
    /\ saved' = suspended.saved
    /\ outcome' = suspended.outcome
    /\ request' = suspended.request
    /\ IF AnalyzerPerRequest
       THEN /\ reviews_data' = suspended.reviews_data
            /\ analysis_result' = suspended.analysis_result
       ELSE UNCHANGED <<reviews_data, analysis_result>>
    /\ UNCHANGED <<fnVars, OUTSCRAPER_API_KEY, OPENAI_API_KEY, driver>>

NextConc == Switch \/ Next

SpecConc == InitConc /\ [][NextConc]_vars

\* ------------------------------------------------------ the inbound boundary
\* A field of the request: not supplied (no argv entry, no JSON key), the
\* empty string, or a non-empty string.
Fields == {"missing", "empty", "given"}

\* The command line is positional: without a name there is no location.
Requests(d) ==
    {q \in [clinic_name : Fields, clinic_location : Fields] :
        d = "cli" /\ q.clinic_name = "missing" => q.clinic_location = "missing"}

\* if len(sys.argv) < 3
CliRejects(q) == q.clinic_name = "missing" \/ q.clinic_location = "missing"

\* if not data / if not clinic_name or not clinic_location
HttpRejects(q) == q.clinic_name # "given" \/ q.clinic_location # "given"

InitInbound ==
    /\ OUTSCRAPER_API_KEY \in BOOLEAN
    /\ OPENAI_API_KEY \in BOOLEAN
    /\ driver \in {"cli", "http"}
    /\ pc = "inbound"
    /\ Constructed
    /\ fn_args = <<>>
    /\ fn_result = <<>>
    /\ request \in Requests(driver)
    /\ suspended = <<>>

\* main up to the construction of the analyzer, or analyze up to it
Inbound ==
    /\ pc = "inbound"
    /\ IF driver = "cli"
       THEN IF CliRejects(request)
            THEN pc' = "done" /\ outcome' = "cli_usage_exit_1"
            ELSE pc' = "scrape" /\ UNCHANGED outcome
       ELSE IF HttpRejects(request)
            THEN pc' = "done" /\ outcome' = "http_400"
            ELSE pc' = "scrape" /\ UNCHANGED outcome
    /\ UNCHANGED <<frameVars, scrapeVars, reportVars, exc>>

NextInbound == Inbound \/ Next

SpecInbound == InitInbound /\ [][NextInbound]_vars

\* ------------------------------------------------------------------ claims
\* the acquisition has returned (or raised) and no poll is pending
AcquisitionOver == pc \in {"scraped", "generate", "generated", "done"}

\* the answer of a poll that the loop treats as "not ready"
NotReady(r) ==
    r.kind = "http_error" \/ (r.kind = "json_map" /\ r.status # "Success")

\* C1: after an accepted submit the result location is polled at most 18
\* times, each poll follows exactly one wait of 5 units, and the time waited
\* never exceeds 90 units, whatever the provider answers.
C1_PollBound ==
    /\ polls <= 18
    /\ waited <= 90
    /\ waited = 5 * (IF pc = "poll" THEN polls + 1 ELSE polls)
    /\ polls > 0 \/ waited > 0 => submits = 1

C1_Witness ==
    /\ pc = "scraped"
    /\ polls = 18
    /\ waited = 90
    /\ NotReady(last_poll)

\* all 18 polls were made and none was terminal
TimedOut == AcquisitionOver /\ polls = 18 /\ NotReady(last_poll)

\* C2 as stated: when all 18 polls complete without a terminal Success, the
\* acquisition raises the timeout error to its caller.
C2_RaisesToCaller == TimedOut => exc # "none"

\* C2 as amended: when all 18 polls complete without a terminal Success, the
\* timeout is caught inside the acquisition, which prints it and returns the
\* empty list to its caller; main then exits with status 1 and /analyze
\* answers 404; no snapshot is stored, no report is produced or saved.
C2_TimeoutReturnsEmpty ==
    TimedOut =>
        /\ exc = "none"
        /\ reviews = <<>>
        /\ reviews_data = <<>>
        /\ diag = "Erreur scraping: Timeout"
        /\ analysis_result = <<>> /\ report = <<>> /\ ~saved
        /\ pc = "done" /\ driver = "cli" => outcome = "cli_exit_1"
        /\ pc = "done" /\ driver = "http" => outcome = "http_404"

C2_Witness == TimedOut /\ pc = "done" /\ driver = "cli" /\ outcome = "cli_exit_1"

\* the envelope of the claim: data is not a non-empty sequence, or data[0] is
\* not a non-empty sequence, or data[0][0] is not a map
MalformedEnvelope(env) ==
    env.outer # "list" \/ env.inner # "list" \/ env.elem # "map"

\* the message of the level at which the envelope stops being as expected
LevelMessage(env) ==
    IF env.outer # "list" THEN "data vide ou invalide"
    ELSE IF env.inner # "list" THEN "data[0] n'est pas une liste"
    ELSE "Element n'est pas un dict"

SuccessPoll == last_poll.kind = "json_map" /\ last_poll.status = "Success"

\* C3 as stated: a Success poll with a malformed envelope makes the
\* acquisition fail with an error raised to its caller.
C3_RaisesAcquisitionError ==
    AcquisitionOver /\ SuccessPoll /\ MalformedEnvelope(last_poll.env) => exc # "none"

\* C3 as amended: a Success poll whose envelope is malformed (data not a
\* non-empty sequence, data[0] not a non-empty sequence, or data[0][0] not a
\* map) ends the polling at that poll; the acquisition prints the message of
\* the level that diverges and returns the empty list, raising nothing; no
\* snapshot is stored and no report is produced (exit 1, or 404).
C3_MalformedReturnsEmpty ==
    SuccessPoll =>
        /\ AcquisitionOver
        /\ MalformedEnvelope(last_poll.env) =>
              /\ exc = "none"
              /\ reviews = <<>>
              /\ reviews_data = <<>>
              /\ diag = LevelMessage(last_poll.env)
              /\ analysis_result = <<>> /\ report = <<>> /\ ~saved
              /\ pc = "done" /\ driver = "cli" => outcome = "cli_exit_1"
              /\ pc = "done" /\ driver = "http" => outcome = "http_404"

C3_Witness ==
    /\ SuccessPoll
    /\ last_poll.env = [outer |-> "list", inner |-> "map", elem |-> "-"]
    /\ polls = 2
    /\ pc = "done"
    /\ outcome = "http_404"

\* the call of _get_recommendation has returned
RecReturned == pc = "returned" /\ fn_result # <<>>

HasHighFlag(ai) == \E i \in 1..Len(FlagsOf(ai)) : FlagsOf(ai)[i] = "high"

\* C4: _get_recommendation returns one of the three verdicts for every total
\* in 0..100, every list of red flags and every provider recommendation
\* (absent included), and returns NO-GO whenever a flag has severity high.
C4_HighFlagForcesNoGo ==
    RecReturned =>
        /\ fn_result[1].exc = "none"
        /\ fn_result[1].val \in {"GO", "NO-GO", "INVESTIGATE"}
        /\ HasHighFlag(fn_args.ai_analysis) => fn_result[1].val = "NO-GO"

C4_Witness ==
    /\ RecReturned
    /\ fn_args.score = 100
    /\ fn_args.ai_analysis.recommandation = "Go"
    /\ fn_args.ai_analysis.red_flags.v = <<"low", "high">>
    /\ fn_result[1].val = "NO-GO"

\* C5: without a high flag the result is GO exactly when total >= 75 and the
\* provider recommendation is 'Go'; otherwise NO-GO exactly when total < 60;
\* INVESTIGATE in every other case.  A provider 'No-Go' alone never gives
\* NO-GO.
C5_ResolverRules ==
    RecReturned /\ ~HasHighFlag(fn_args.ai_analysis) =>
        LET go == fn_args.score >= 75 /\ fn_args.ai_analysis.recommandation = "Go"
            val == fn_result[1].val
        IN  /\ val = "GO" <=> go
            /\ val = "NO-GO" <=> ~go /\ fn_args.score < 60
            /\ val = "INVESTIGATE" <=> ~go /\ fn_args.score >= 60
            /\ fn_args.score >= 60 => val # "NO-GO"

C5_Witness ==
    /\ RecReturned
    /\ fn_args.score = 80
    /\ fn_args.ai_analysis.recommandation = "No-Go"
    /\ fn_args.ai_analysis.red_flags.v = <<"medium">>
    /\ fn_result[1].val = "INVESTIGATE"

\* generate_report_data has run on an acquired snapshot
Generated == pc \in {"generated", "done"} /\ reviews_data # <<>>

\* The qualitative step is unavailable: no review, no sampled review with
\* text, no credential, a failure of the service, or a response that
\* json.loads rejects.
QualitativeUnavailable ==
    \/ reviews_data[1].reviews_data = <<>>
    \/ SampledTexts(reviews_data[1].reviews_data) = <<>>
    \/ ~OPENAI_API_KEY
    \/ ai_resp.kind = "error"
    \/ ai_resp.kind = "completion" /\ ~JsonParses(ai_resp)

\* C6: when the qualitative step is unavailable nothing is raised and
\* generate_report_data still returns a complete report, whose ai_analysis is
\* empty and whose red-flag sub-score is 10.
C6_DegradedReport ==
    Generated /\ QualitativeUnavailable =>
        /\ exc = "none"
        /\ report # <<>>
        /\ analysis_result = report
        /\ report[1].ai_analysis = EmptyAnalysis
        /\ score_detail # <<>>
        /\ score_detail[1].red_flags = 10
        /\ report[1].reputation_score = TotalScore(score_detail[1])

C6_Witness ==
    /\ Generated
    /\ ai_resp.kind = "completion"
    /\ ai_resp.content = <<"TEXT", "WS", "DOC">>
    /\ ai_resp.doc.kind = "list"
    /\ report # <<>>
    /\ report[1].ai_analysis = EmptyAnalysis

\* C7: whatever the classification service answers, once a snapshot was
\* acquired generate_report_data computes a score and returns a report.
C7_QualitativeNeverFatal ==
    Generated => exc = "none" /\ report # <<>> /\ score_detail # <<>>

\* C8: with an empty analysis the recommendation is never GO: it is NO-GO
\* when total < 60 and INVESTIGATE when total >= 60.
C8_EmptyAnalysisNeverGo ==
    Generated /\ report # <<>> /\ report[1].ai_analysis = EmptyAnalysis =>
        /\ report[1].recommendation # "GO"
        /\ report[1].reputation_score < 60 => report[1].recommendation = "NO-GO"
        /\ report[1].reputation_score >= 60 => report[1].recommendation = "INVESTIGATE"

C8_Witness ==
    /\ Generated
    /\ ~OPENAI_API_KEY
    /\ report # <<>>
    /\ report[1].ai_analysis = EmptyAnalysis
    /\ report[1].reputation_score >= 75
    /\ report[1].recommendation = "INVESTIGATE"

\* C9: without the provider credential the acquisition raises before any
\* network call: no submit, no poll, and the run is aborted.
C9_NoCredentialNoCall ==
    ~OUTSCRAPER_API_KEY =>
        /\ submits = 0 /\ polls = 0 /\ waited = 0
        /\ pc \in {"scrape", "scraped", "done"}
        /\ pc # "scrape" => exc # "none" /\ reviews = <<>>
        /\ pc = "done" => outcome \in {"cli_traceback_exit_1", "http_500", "raised"}
        /\ report = <<>> /\ analysis_result = <<>> /\ ~saved

C9_Witness ==
    /\ ~OUTSCRAPER_API_KEY
    /\ pc = "done"
    /\ driver = "cli"
    /\ outcome = "cli_traceback_exit_1"

\* the acquisition ended without a snapshot
AcquisitionFailed == AcquisitionOver /\ (exc # "none" \/ reviews = <<>>) /\ reviews_data = <<>>

\* C10: a report is produced or saved only after the acquisition returned a
\* snapshot; a failed acquisition ends main and /analyze with an error and
\* without generating or saving anything; generate_report_data without a
\* snapshot returns no report, leaves analysis_result as it was and calls
\* neither the analyzer nor the scorer.
C10_NoReportWithoutSnapshot ==
    /\ report # <<>> \/ analysis_result # <<>> \/ saved
          => reviews # <<>> /\ reviews_data = reviews
    /\ saved => driver = "cli" /\ outcome = "cli_exit_0" /\ analysis_result # <<>>
    /\ AcquisitionFailed /\ driver \in {"cli", "http"} =>
          /\ pc \in {"scraped", "done"}
          /\ pc = "done" =>
                outcome \in {"cli_exit_1", "cli_traceback_exit_1", "http_404", "http_500"}
    /\ AcquisitionFailed =>
          /\ report = <<>> /\ analysis_result = <<>> /\ ~saved
          /\ openai_calls = 0 /\ analyze_calls = 0 /\ score_calls = 0
          /\ outcome \notin {"cli_exit_0", "http_200", "returned"}

C10_Witness ==
    /\ driver = "direct"
    /\ TimedOut
    /\ pc = "done"
    /\ outcome = "no_report"

\* a Success poll whose envelope is a sequence holding a sequence holding a map
WellFormedSuccess == SuccessPoll /\ ~MalformedEnvelope(last_poll.env)

\* C19: while fewer than 18 polls were made, a poll that is not ready is
\* followed by one wait and then another poll; the first Success poll is
\* terminal (no poll after it), and the listing record of a well-formed
\* Success envelope becomes the stored and the returned snapshot.
C19_PollLoop ==
    /\ [](/\ NotReady(last_poll) /\ polls < 18 => pc \in {"sleep", "poll"}
          /\ SuccessPoll => AcquisitionOver
          /\ WellFormedSuccess =>
                /\ reviews_data = <<last_poll.snap>>
                /\ reviews = reviews_data
                /\ exc = "none" \/ pc \in {"generated", "done"})
    /\ [][/\ pc = "sleep" => pc' = "poll" /\ waited' = waited + 5 /\ polls' = polls
          /\ pc = "poll" => polls' = polls + 1
          /\ SuccessPoll => polls' = polls /\ last_poll' = last_poll]_vars

C19_Witness ==
    /\ WellFormedSuccess
    /\ polls = 3
    /\ waited = 15
    /\ pc = "scraped"
    /\ reviews = <<last_poll.snap>>
    /\ Len(last_poll.snap.reviews_data) = 2

\* the acquisition ended in failure after a transport error
TransportFailure ==
    /\ AcquisitionOver
    /\ exc = "none"
    /\ diag = "Erreur reseau scraping"
    /\ reviews = <<>>
    /\ reviews_data = <<>>
    /\ report = <<>> /\ analysis_result = <<>>
    /\ openai_calls = 0

\* C20: a transport error of the submit call or of a poll call is not
\* retried: the acquisition ends there in failure, no further network call
\* is made in the run and no snapshot is stored.
C20_TransportErrorNotRetried ==
    /\ submit_resp = "transport_error" =>
          TransportFailure /\ submits = 1 /\ polls = 0 /\ waited = 0
    /\ last_poll.kind = "transport_error" =>
          TransportFailure /\ submits = 1 /\ polls = attempt + 1 /\ waited = 5 * polls

C20_Witness ==
    /\ last_poll.kind = "transport_error"
    /\ polls = 3
    /\ pc = "done"
    /\ outcome = "http_404"

\* no operation of the analyzer has run
CoreNotInvoked ==
    /\ pc \in {"inbound", "done"}
    /\ submits = 0 /\ polls = 0 /\ waited = 0
    /\ openai_calls = 0 /\ analyze_calls = 0 /\ score_calls = 0
    /\ exc = "none" /\ diag = "none"
    /\ outcome \in {"running", "cli_usage_exit_1", "http_400"}

\* C11: main and the /analyze handler both reject a request whose clinic
\* name or location is missing or empty, before any operation of the
\* analyzer runs.
C11_RejectsBeforeCore ==
    request.clinic_name # "given" \/ request.clinic_location # "given" => CoreNotInvoked

\* calculate_reputation_score has returned a score for a listing
Scored ==
    /\ pc = "returned"
    /\ fn_args.reviews_data # <<>>
    /\ fn_result[1].exc = "none"

ScoredListing == fn_args.reviews_data[1]

SubScores == fn_result[1].detail[1]

\* C12: the volume sub-score is a non-decreasing step function of the
\* effective review count n (the reported total, or the number of retrieved
\* reviews when the total is zero): 20 from 100, 15 from 50, 10 from 20,
\* else 5; the counts 19, 20, 49, 50, 99, 100 give 5, 10, 10, 15, 15, 20.
C12_VolumeSteps ==
    Scored =>
        LET n == IF ScoredListing.reviews # 0 THEN ScoredListing.reviews
                 ELSE Len(ScoredListing.reviews_data)
            v == SubScores.volume
        IN  /\ n >= 100 => v = 20
            /\ n >= 50 /\ n < 100 => v = 15
            /\ n >= 20 /\ n < 50 => v = 10
            /\ n < 20 => v = 5
            /\ \A b \in {<<19, 5>>, <<20, 10>>, <<49, 10>>, <<50, 15>>, <<99, 15>>, <<100, 20>>} :
                  n = b[1] => v = b[2]
            /\ \A m \in ScoreCounts \cup LongLengths : m <= n => VolumeScore(m) <= v

C12_Witness ==
    /\ Scored
    /\ ScoredListing.reviews = 0
    /\ Len(ScoredListing.reviews_data) = 99
    /\ SubScores.volume = 15

\* the number of flags of one severity
SeverityCount(flags, sev) == Cardinality({i \in DOMAIN flags : flags[i] = sev})

GivenFlags ==
    IF fn_args.ai_analysis.red_flags.t = "list" THEN fn_args.ai_analysis.red_flags.v ELSE <<>>

\* C13: the red-flag penalty sub-score is determined by the numbers of high
\* and of medium flags, whatever their order: 0 with a high flag, else 3
\* with more than two medium flags, else 6 with one or two, else 10.
C13_PenaltyBySeverities ==
    Scored =>
        SubScores.red_flags =
            IF SeverityCount(GivenFlags, "high") > 0 THEN 0
            ELSE IF SeverityCount(GivenFlags, "medium") > 2 THEN 3
            ELSE IF SeverityCount(GivenFlags, "medium") > 0 THEN 6
            ELSE 10

C13_Witness ==
    /\ Scored
    /\ GivenFlags = <<"medium", "low", "high">>
    /\ SubScores.red_flags = 0

ParsedReviews ==
    {i \in DOMAIN ScoredListing.reviews_data : ScoredListing.reviews_data[i].ts.fmt = "ok"}

RecentReviews ==
    {i \in ParsedReviews : ScoredListing.reviews_data[i].ts.age < 180}

\* C14: the recency sub-score is 10 without reviews, 15 when every review
\* has a timestamp that parses and lies within 180 days, 0 when there are
\* reviews and no timestamp parses; a review whose timestamp is missing or
\* malformed counts in the denominator only, and scoring still returns.
C14_Recency ==
    /\ pc = "returned" /\ fn_args.reviews_data # <<>> /\ FlagsError(fn_args.ai_analysis) = "none"
            => fn_result[1].exc = "none"
    /\ Scored =>
        LET rs == ScoredListing.reviews_data
        IN  /\ rs = <<>> => SubScores.recency = FromInt(10)
            /\ rs # <<>> /\ RecentReviews = DOMAIN rs => SubScores.recency = FromInt(15)
            /\ rs # <<>> /\ ParsedReviews = {} => SubScores.recency = FromInt(0)
            /\ rs # <<>> =>
                  SubScores.recency = FMul(FDiv(FromInt(Cardinality(RecentReviews)), Len(rs)), 15)

C14_Witness ==
    /\ Scored
    /\ Len(ScoredListing.reviews_data) = 2
    /\ ScoredListing.reviews_data[1].ts.fmt = "malformed"
    /\ ScoredListing.reviews_data[2].ts = [fmt |-> "ok", age |-> 30]
    /\ SubScores.recency = <<0, 0, 15 * 2^15>>

\* x <= y for two floats
FLeq(x, y) ==
    \/ x[3] < y[3]
    \/ x[3] = y[3] /\ x[2] < y[2]
    \/ x[3] = y[3] /\ x[2] = y[2] /\ x[1] <= y[1]

\* C15: for a rating within [0, 5] and any analysis, the sub-scores lie in
\* their ranges (rating 0..40, volume 0..20, recency 0..15, trend 0..15,
\* red flags 0..10) and the total lies in 0..100.
C15_SubScoresInRange ==
    Scored =>
        /\ FLeq(FromInt(0), SubScores.rating) /\ FLeq(SubScores.rating, FromInt(40))
        /\ SubScores.volume \in 0..20
        /\ FLeq(FromInt(0), SubScores.recency) /\ FLeq(SubScores.recency, FromInt(15))
        /\ SubScores.trend \in 0..15
        /\ SubScores.red_flags \in 0..10
        /\ fn_result[1].total \in 0..100

C15_Witness ==
    /\ Scored
    /\ ScoredListing.rating10 = 50
    /\ SubScores.rating = FromInt(40)
    /\ SubScores.volume = 20
    /\ SubScores.recency = FromInt(15)
    /\ SubScores.red_flags = 10
    /\ fn_result[1].total = 95

\* averageRating * 8
RatingTimes8(rating10) == FMul(RatingValue(rating10), 8)

C17_SampleAndWholeSnapshot ==
    Generated /\ report # <<>> =>
        LET rs == last_poll.snap.reviews_data
            n == Len(rs)
            recent == {i \in 1..n : rs[i].ts.fmt = "ok" /\ rs[i].ts.age < 180}
        IN  /\ reviews_data = <<last_poll.snap>>
            /\ Len(report[1].raw_reviews_sample) = IF n < 10 THEN n ELSE 10
            /\ \A i \in 1..Len(report[1].raw_reviews_sample) :
                  i <= n /\ report[1].raw_reviews_sample[i] = rs[i]
            /\ report[1].reviews_analyzed = n
            /\ score_detail[1].recency =
                  IF n = 0 THEN FromInt(10)
                  ELSE FMul(FDiv(FromInt(Cardinality(recent)), n), 15)
            /\ openai_calls = 1 <=>
                  OPENAI_API_KEY /\ \E i \in 1..n : i <= 50 /\ rs[i].has_text

C17_Witness ==
    /\ pc = "done"
    /\ report # <<>>
    /\ Len(reviews_data[1].reviews_data) = 60
    /\ reviews_data[1].reviews_data[51] = RecentReview
    /\ OPENAI_API_KEY
    /\ openai_calls = 0
    /\ report[1].reviews_analyzed = 60
    /\ Len(report[1].raw_reviews_sample) = 10
    /\ score_detail[1].recency = <<0, 0, 2^14>>

\* the report generate_report_data builds from one listing and one
\* classifier response alone
ReportFrom(c, resp) ==
    LET ai == IF c.reviews_data # <<>> THEN analyze_with_ai(c.reviews_data, resp)
              ELSE EmptyAnalysis
        sc == calculate_reputation_score(<<c>>, ai)
    IN  ReportOf(c, ai, sc.total, _get_recommendation(sc.total, ai).val)

\* the request of context x works on the listing it was sent, and its
\* report is made of that listing and of the classifier response it got
Independent(x) ==
    /\ x.reviews_data # <<>> => x.reviews_data = <<x.last_poll.snap>> /\ x.reviews = x.reviews_data
    /\ x.last_poll.kind # "json_map" \/ x.last_poll.status # "Success" => x.reviews_data = <<>>
    /\ x.pc \in {"generated", "done"} /\ x.report # <<>> =>
          /\ x.report[1] = ReportFrom(x.last_poll.snap, x.ai_resp)
          /\ x.analysis_result = x.report
    /\ x.pc = "done" /\ x.outcome = "http_200" => x.report # <<>>

\* C18: with two /analyze requests served concurrently, under every
\* interleaving the report of each is the one its own listing and its own
\* classifier response give: no reviews_data or analysis_result written
\* for one request is read for the other.
C18_RequestsIndependent ==
    Concurrent => Independent(Context) /\ Independent(suspended)

C18_Witness ==
    /\ Concurrent
    /\ pc = "done" /\ outcome = "http_200"
    /\ suspended.pc = "done" /\ suspended.outcome = "http_200"
    /\ last_poll.snap # suspended.last_poll.snap
    /\ report[1].rating10 = 45 /\ report[1].recommendation = "GO"
    /\ suspended.report[1].rating10 = 0 /\ suspended.report[1].recommendation = "NO-GO"
    /\ polls = 2 /\ suspended.polls = 3

\* a snapshot was acquired, it has a review, the classification credential
\* is set and one of its first 50 reviews has a text
Classifiable ==
    /\ reviews_data # <<>>
    /\ reviews_data = <<last_poll.snap>>
    /\ reviews_data[1].reviews_data # <<>>
    /\ OPENAI_API_KEY
    /\ \E i \in DOMAIN reviews_data[1].reviews_data :
          i <= 50 /\ reviews_data[1].reviews_data[i].has_text

\* C21: in a run the classification service is called at most once, during
\* report generation, and only when a snapshot was acquired, it has a
\* review, the credential is set and one of the first 50 reviews has a
\* text; otherwise no call is made, and a report generated from a snapshot
\* carries the empty analysis.
C21_ClassifierCalledOnce ==
    /\ [](/\ openai_calls \in {0, 1}
          /\ openai_calls = 1 => Classifiable /\ AcquisitionOver /\ pc \in {"generated", "done"}
          /\ Generated /\ Classifiable => openai_calls = 1
          /\ Generated /\ ~Classifiable =>
                /\ openai_calls = 0
                /\ ai_resp = NoAiResponse
                /\ exc = "none"
                /\ report # <<>>
                /\ report[1].ai_analysis = EmptyAnalysis)
    /\ [][openai_calls' # openai_calls =>
            /\ pc = "generate" /\ pc' = "generated"
            /\ Classifiable
            /\ openai_calls = 0 /\ openai_calls' = 1]_vars

C21_Witness ==
    /\ pc = "done"
    /\ polls = 2
    /\ OPENAI_API_KEY
    /\ report # <<>>
    /\ Len(reviews_data[1].reviews_data) = 60
    /\ reviews_data[1].reviews_data[51].has_text
    /\ openai_calls = 0
    /\ report[1].ai_analysis = EmptyAnalysis
    /\ report[1].reviews_analyzed = 60

====
